---- MODULE Spec2Model ----
(***************************************************************************)
(* iroh-api ApiExt: get / add_stream / add and save_get_stream             *)
(* (src/iroh-api/src/api_ext.rs), over a model of the local filesystem as  *)
(* std::path / tokio::fs see it on unix (symbolic links are followed by    *)
(* exists, is_dir, is_file, mkdir's ancestors and File::create).           *)
(*                                                                         *)
(* Paths are sequences of components; <<>> is the caller's working         *)
(* directory, which always is a directory.                                 *)
(***************************************************************************)
EXTENDS Integers, Sequences, FiniteSets, TLC

VARIABLES
    fs,      \* the local filesystem tokio::fs acts on (api_ext.rs:78)
    fs0,     \* the filesystem as it was before the call (root_path.exists()) (api_ext.rs:24)
    pc,      \* position of the caller in get / save_get_stream / add (api_ext.rs:68)
    op,      \* ApiExt::get or ApiExt::add (api_ext.rs:15)
    call,    \* arguments of get (ipfs_path, output_path) and add (path, wrap) (api_ext.rs:15)
    root,    \* root_path (api_ext.rs:23)
    result,  \* Result<PathBuf> of get, Result<Cid> of add (api_ext.rs:19)
    cur,     \* (path, out) = block? (api_ext.rs:74)
    fh,      \* f = File::create(full_path) (api_ext.rs:84)
    hist,    \* items save_get_stream has handled, in order (api_ext.rs:73)
    pulled,  \* blocks.next().await requests answered with Some(..) (api_ext.rs:73)
    ops,     \* tokio::fs / tokio::io calls made by save_get_stream (api_ext.rs:78)
    streams, \* self.get_stream(ipfs_path) invocations (api_ext.rs:30)
    probes,  \* get_root_path + root_path.exists() (api_ext.rs:23)
    acc,     \* try_fold accumulator (api_ext.rs:55)
    events,  \* add_events items folded so far (api_ext.rs:54)
    ended,   \* the stream returned None (blocks.next() / try_fold end) (api_ext.rs:73)
    cap,     \* capability add_stream invoked (add_dir / add_symlink / add_file) (api_ext.rs:40)
    config,  \* a Config value of the rpc client (config.rs:8)
    collected \* what the last Config::collect returned, and for which value (config.rs:24)

vars == <<fs, fs0, pc, op, call, root, result, cur, fh, hist, pulled, ops,
          streams, probes, acc, events, ended, cap, config, collected>>

\* ---------------------------------------------------------------- bounds
MaxItems == 4
MaxEvents == 3
MaxHops == 4
MaxShared == 2

Procs == {1, 2}
Solo == {1}

\* ------------------------------------------------------- filesystem model
NoEnt == [kind |-> "none", data |-> <<>>, target |-> <<>>]
DirEnt == [kind |-> "dir", data |-> <<>>, target |-> <<>>]
FileEnt(d) == [kind |-> "file", data |-> d, target |-> <<>>]
LinkEnt(t) == [kind |-> "symlink", data |-> <<>>, target |-> t]
\* A fifo, socket or device: neither directory, symlink nor regular file.
SpecialEnt == [kind |-> "special", data |-> <<>>, target |-> <<>>]

EntAt(f, p) == IF p = <<>> THEN DirEnt ELSE IF p \in DOMAIN f THEN f[p] ELSE NoEnt
Put(f, p, e) == [q \in DOMAIN f \cup {p} |-> IF q = p THEN e ELSE f[q]]

Parent(p) == SubSeq(p, 1, Len(p) - 1)
IsPrefix(r, q) == Len(r) <= Len(q) /\ SubSeq(q, 1, Len(r)) = r

\* Path resolution from directory at (a real path) along comps.  Symbolic
\* links met on the way are followed; the last component is followed only
\* when followLast.  The result's at is the real location of the entry,
\* which may be absent.
RECURSIVE Walk(_, _, _, _, _)
Walk(f, at, comps, followLast, hops) ==
    IF comps = <<>> THEN [err |-> "ok", at |-> at]
    ELSE LET c == Head(comps)
             rest == Tail(comps)
             here == Append(at, c)
             e == EntAt(f, here)
         IN  IF c = "." THEN Walk(f, at, rest, followLast, hops)
             ELSE IF c = ".." THEN Walk(f, Parent(at), rest, followLast, hops)
             ELSE IF rest = <<>> /\ (~followLast \/ e.kind \in {"none", "dir", "file", "special"})
                  THEN [err |-> "ok", at |-> here]
             ELSE IF e.kind = "none" THEN [err |-> "ENOENT", at |-> here]
             ELSE IF e.kind \in {"file", "special"} THEN [err |-> "ENOTDIR", at |-> here]
             ELSE IF e.kind = "dir" THEN Walk(f, here, rest, followLast, hops)
             ELSE IF hops = 0 THEN [err |-> "ELOOP", at |-> here]
             ELSE Walk(f, at, e.target \o rest, followLast, hops - 1)

Stat(f, p) == LET r == Walk(f, <<>>, p, TRUE, MaxHops)
              IN  IF r.err = "ok" THEN EntAt(f, r.at) ELSE NoEnt
LStat(f, p) == LET r == Walk(f, <<>>, p, FALSE, MaxHops)
               IN  IF r.err = "ok" THEN EntAt(f, r.at) ELSE NoEnt

exists(f, p) == Stat(f, p).kind # "none"
is_dir(f, p) == Stat(f, p).kind = "dir"
is_file(f, p) == Stat(f, p).kind = "file"
is_symlink(f, p) == LStat(f, p).kind = "symlink"

Done(f) == [err |-> "ok", fs |-> f]
Failed(f, e) == [err |-> e, fs |-> f]

mkdir(f, p) ==
    LET r == Walk(f, <<>>, p, FALSE, MaxHops)
    IN  IF r.err # "ok" THEN Failed(f, r.err)
        ELSE IF EntAt(f, r.at).kind # "none" THEN Failed(f, "EEXIST")
        ELSE Done(Put(f, r.at, DirEnt))

RECURSIVE create_dir_all(_, _)
create_dir_all(f, p) ==
    IF p = <<>> THEN Done(f)
    ELSE LET m == mkdir(f, p)
         IN  IF m.err = "ok" THEN m
             ELSE IF m.err # "ENOENT"
                  THEN (IF is_dir(f, p) THEN Done(f) ELSE m)
             ELSE LET up == create_dir_all(f, Parent(p))
                  IN  IF up.err # "ok" THEN up
                      ELSE LET m2 == mkdir(up.fs, p)
                           IN  IF m2.err = "ok" THEN m2
                               ELSE IF is_dir(up.fs, p) THEN Done(up.fs)
                               ELSE m2

\* File::create: open(O_WRONLY | O_CREAT | O_TRUNC); at is the file opened.
file_create(f, p) ==
    LET r == Walk(f, <<>>, p, TRUE, MaxHops)
        k == EntAt(f, r.at).kind
    IN  IF r.err # "ok" THEN [err |-> r.err, fs |-> f, at |-> <<>>]
        ELSE IF k = "dir" THEN [err |-> "EISDIR", fs |-> f, at |-> <<>>]
        ELSE IF k = "special" THEN [err |-> "ENXIO", fs |-> f, at |-> <<>>]
        ELSE [err |-> "ok", fs |-> Put(f, r.at, FileEnt(<<>>)), at |-> r.at]

\* The bytes written at offset 0 of an open file.
file_write(f, at, bytes) ==
    LET old == EntAt(f, at).data
    IN  Put(f, at, FileEnt(bytes \o SubSeq(old, Len(bytes) + 1, Len(old))))

symlink(f, target, p) ==
    LET r == Walk(f, <<>>, p, FALSE, MaxHops)
    IN  IF r.err # "ok" THEN Failed(f, r.err)
        ELSE IF EntAt(f, r.at).kind # "none" THEN Failed(f, "EEXIST")
        ELSE Done(Put(f, r.at, LinkEnt(target)))


\* ------------------------------------------------------------ data model
None == 0
Cids == 1 .. 3

\* Cid::to_string: the text encoding of an identifier.
CidToString(c) == CASE c = 1 -> "QmA" [] c = 2 -> "QmB" [] OTHER -> "QmC"

\* PathBuf::from(String) for a string without separators: one component.
PathBufFrom(s) == <<s>>

\* IpfsPath: cid() is None for a path that is not rooted at a CID.
IpfsPaths == [cid : {None, 1}, tail : {<<>>, <<"tail">>, <<"s", "t">>}]
NoOutput == [some |-> FALSE, path |-> <<>>]
OutputPaths == {NoOutput, [some |-> TRUE, path |-> <<"out">>]}

Panic == <<"<panic>">>

get_root_path_first(ipfs_path, output_path) ==
    IF output_path.some THEN output_path.path
    ELSE IF ipfs_path.tail = <<>>
         THEN (IF ipfs_path.cid = None THEN Panic
               ELSE PathBufFrom(CidToString(ipfs_path.cid)))
         ELSE PathBufFrom(Head(ipfs_path.tail))

get_root_path(ipfs_path, output_path) ==
    IF output_path.some THEN output_path.path
    ELSE IF ipfs_path.tail = <<>>
         THEN (IF ipfs_path.cid = None THEN Panic
               ELSE PathBufFrom(CidToString(ipfs_path.cid)))
         ELSE PathBufFrom(ipfs_path.tail[Len(ipfs_path.tail)])

\* The synchronous head of get: what it decides before the first await.
get_check_exists_first(ipfs_path, output_path, f) ==
    LET root_path == get_root_path(ipfs_path, output_path)
    IN  IF exists(f, root_path)
        THEN [tag |-> "exists", root |-> root_path, probes |-> 1]
        ELSE IF ipfs_path.cid = None
        THEN [tag |-> "addressing", root |-> root_path, probes |-> 1]
        ELSE [tag |-> "go", root |-> root_path, probes |-> 1]

get_check(ipfs_path, output_path, f) ==
    IF ipfs_path.cid = None
    THEN [tag |-> "addressing", root |-> <<>>, probes |-> 0]
    ELSE LET root_path == get_root_path(ipfs_path, output_path)
         IN  IF exists(f, root_path)
             THEN [tag |-> "exists", root |-> root_path, probes |-> 1]
             ELSE [tag |-> "go", root |-> root_path, probes |-> 1]

\* Stream items (RelativePathBuf, OutType).
ItemPaths == {<<"a">>, <<"b">>, <<"a", "b">>}
Contents == {<<1, 2>>, <<3>>}
Targets == {<<"..", "b">>, <<".">>}
DirItem(p) == [path |-> p, kind |-> "Dir", data |-> <<>>, target |-> <<>>]
ReaderItem(p, d) == [path |-> p, kind |-> "Reader", data |-> d, target |-> <<>>]
SymlinkItem(p, t) == [path |-> p, kind |-> "Symlink", data |-> <<>>, target |-> t]
Items == {DirItem(p) : p \in ItemPaths}
           \cup {ReaderItem(p, d) : p \in ItemPaths \cup {<<>>}, d \in Contents}
           \cup {SymlinkItem(p, t) : p \in ItemPaths, t \in Targets}
NoItem == [path |-> <<>>, kind |-> "none", data |-> <<>>, target |-> <<>>]

\* RelativePath::to_path(base): base joined with the components.
to_path(path, base) == base \o path
\* RelativePath::parent(): None for the empty path only.
has_parent(path) == path # <<>>

\* Results.
Pending == [tag |-> "none", err |-> "", path |-> <<>>, cid |-> None]
Ok(path, cid) == [tag |-> "Ok", err |-> "", path |-> path, cid |-> cid]
Err(e) == [tag |-> "Err", err |-> e, path |-> <<>>, cid |-> None]

NoHandle == <<"<closed>">>
NoCall == [ipfs_path |-> [cid |-> None, tail |-> <<>>], output_path |-> NoOutput,
           path |-> <<>>, wrap |-> FALSE]
NoCap == [name |-> "none", path |-> <<>>, wrap |-> FALSE]

\* ------------------------------------------------- rpc client Config
\* Option<T>.
NoneOpt == [some |-> FALSE, val |-> <<>>]
Some(v) == [some |-> TRUE, val |-> v]

\* usize::to_string: the decimal digits, without sign or padding.
DigitChars == <<"0", "1", "2", "3", "4", "5", "6", "7", "8", "9">>
RECURSIVE usize_to_string(_)
usize_to_string(n) ==
    IF n < 10 THEN <<DigitChars[n + 1]>>
    ELSE usize_to_string(n \div 10) \o <<DigitChars[(n % 10) + 1]>>

RECURSIVE str_to_usize(_)
str_to_usize(s) ==
    IF s = <<>> THEN 0
    ELSE 10 * str_to_usize(SubSeq(s, 1, Len(s) - 1))
         + ((CHOOSE d \in 1 .. 10 : DigitChars[d] = s[Len(s)]) - 1)

\* A service address scheme://host:port.  Text is a sequence of pieces.
Addr(scheme, host, port) == [scheme |-> scheme, host |-> host, port |-> port]
\* "...".parse::<Addr>()
parse_addr(s) == Addr(s[1], s[3], str_to_usize(SubSeq(s, 5, Len(s))))
\* Addr's Display, used by to_string.
addr_to_string(a) == <<a.scheme, "://", a.host, ":">> \o usize_to_string(a.port)

\* #[derive(Default)] on Config: every Option field is None.
ConfigDefault ==
    [gateway_addr |-> NoneOpt, p2p_addr |-> NoneOpt, store_addr |-> NoneOpt,
     channels |-> NoneOpt]

\* Config::default_grpc().
default_grpc ==
    [gateway_addr |-> Some(parse_addr(<<"grpc", "://", "0.0.0.0", ":", "4", "4", "0", "0">>)),
     p2p_addr |-> Some(parse_addr(<<"grpc", "://", "0.0.0.0", ":", "4", "4", "0", "1">>)),
     store_addr |-> Some(parse_addr(<<"grpc", "://", "0.0.0.0", ":", "4", "4", "0", "2">>)),
     channels |-> Some(16)]

AddrFields == {"gateway_addr", "p2p_addr", "store_addr"}
\* Values the public fields may be given.
AddrValues ==
    {NoneOpt, Some(Addr("grpc", "0.0.0.0", 4400)), Some(Addr("mem", "localhost", 80))}
ChannelValues == {NoneOpt, Some(1), Some(16), Some(205)}

\* iroh_util::insert_into_config_map(map, key, value): map[key] = value.
insert_into_config_map(map, key, value) ==
    [k \in DOMAIN map \cup {key} |-> IF k = key THEN value ELSE map[k]]

EmptyMap == [k \in {} |-> <<>>]

\* Source::collect for Config: Ok(map).
collect_every_key(c) ==
    LET m1 == insert_into_config_map(EmptyMap, "gateway_addr",
                  IF c.gateway_addr.some THEN addr_to_string(c.gateway_addr.val) ELSE <<>>)
        m2 == insert_into_config_map(m1, "p2p_addr",
                  IF c.p2p_addr.some THEN addr_to_string(c.p2p_addr.val) ELSE <<>>)
        m3 == insert_into_config_map(m2, "store_addr",
                  IF c.store_addr.some THEN addr_to_string(c.store_addr.val) ELSE <<>>)
    IN  insert_into_config_map(m3, "channels",
                  IF c.channels.some THEN usize_to_string(c.channels.val) ELSE <<>>)

collect(c) ==
    LET m1 == IF c.gateway_addr.some
              THEN insert_into_config_map(EmptyMap, "gateway_addr",
                                          addr_to_string(c.gateway_addr.val))
              ELSE EmptyMap
        m2 == IF c.p2p_addr.some
              THEN insert_into_config_map(m1, "p2p_addr", addr_to_string(c.p2p_addr.val))
              ELSE m1
        m3 == IF c.store_addr.some
              THEN insert_into_config_map(m2, "store_addr", addr_to_string(c.store_addr.val))
              ELSE m2
    IN  IF c.channels.some
        THEN insert_into_config_map(m3, "channels", usize_to_string(c.channels.val))
        ELSE m3

NotCollected == [tag |-> "none", of |-> ConfigDefault, map |-> EmptyMap]

\* Everything of the ApiExt client, which Config does not touch.
ApiVars == <<fs, fs0, pc, op, call, root, result, cur, fh, hist, pulled, ops,
             streams, probes, acc, events, ended, cap>>

\* Config::default()
config_default ==
    /\ config' = ConfigDefault
    /\ UNCHANGED <<collected, ApiVars>>

\* Config::default_grpc()
config_default_grpc ==
    /\ config' = default_grpc
    /\ UNCHANGED <<collected, ApiVars>>

\* Assignment to one of the public address fields.
set_addr ==
    /\ \E f \in AddrFields, v \in AddrValues : config' = [config EXCEPT ![f] = v]
    /\ UNCHANGED <<collected, ApiVars>>

\* Assignment to the public field channels.
set_channels ==
    /\ \E v \in ChannelValues : config' = [config EXCEPT !.channels = v]
    /\ UNCHANGED <<collected, ApiVars>>

\* config.collect()
do_collect ==
    /\ collected' = [tag |-> "Ok", of |-> config, map |-> collect(config)]
    /\ UNCHANGED <<config, ApiVars>>

\* ------------------------------------------------------------ initial state
EmptyFs == [q \in {} |-> NoEnt]
InitFs == {EmptyFs,
           Put(EmptyFs, <<"out">>, DirEnt),
           Put(EmptyFs, <<"out">>, FileEnt(<<7>>)),
           Put(EmptyFs, <<"out">>, LinkEnt(<<".">>)),
           Put(EmptyFs, <<"out">>, LinkEnt(<<"ext">>)),
           Put(EmptyFs, <<"out">>, SpecialEnt),
           Put(Put(EmptyFs, <<"f">>, FileEnt(<<7>>)), <<"out">>, LinkEnt(<<"f">>)),
           Put(Put(EmptyFs, <<"dev">>, SpecialEnt), <<"out">>, LinkEnt(<<"dev">>))}

Init ==
    /\ fs \in InitFs
    /\ fs0 = fs
    /\ pc = [p \in Procs |-> "idle"]
    /\ op = [p \in Procs |-> "none"]
    /\ call = [p \in Procs |-> NoCall]
    /\ root = [p \in Procs |-> <<>>]
    /\ result = [p \in Procs |-> Pending]
    /\ cur = [p \in Procs |-> NoItem]
    /\ fh = [p \in Procs |-> NoHandle]
    /\ hist = [p \in Procs |-> <<>>]
    /\ pulled = [p \in Procs |-> 0]
    /\ ops = [p \in Procs |-> 0]
    /\ streams = [p \in Procs |-> 0]
    /\ probes = [p \in Procs |-> 0]
    /\ acc = [p \in Procs |-> None]
    /\ events = [p \in Procs |-> <<>>]
    /\ ended = [p \in Procs |-> FALSE]
    /\ cap = [p \in Procs |-> NoCap]
    /\ config = ConfigDefault
    /\ collected = NotCollected


\* ------------------------------------------------------------------- get
\* `?` on an Err returns from the function: nothing runs afterwards.
ResumePc == "next"
AbortPc == "done"

\* What error propagation does to the disk: nothing (no rollback).
unwind_cleanup(f, r) == [q \in {x \in DOMAIN f : ~IsPrefix(r, x)} |-> f[q]]
unwind(f, r) == f

\* The loop head of save_get_stream: the next item is requested here only.
at_loop_head_or_copying(p) == pc[p] \in {"next", "copy"}
at_loop_head(p) == pc[p] = "next"

Fail_swallow(p, e, f) ==
    /\ UNCHANGED result
    /\ pc' = [pc EXCEPT ![p] = "next"]
    /\ fs' = f

Fail(p, e, f) ==
    /\ result' = [result EXCEPT ![p] = Err(e)]
    /\ pc' = [pc EXCEPT ![p] = AbortPc]
    /\ fs' = unwind(f, root[p])

\* The item in hand is complete: back to the loop head.
Complete(p, f, at) ==
    /\ hist' = [hist EXCEPT ![p] = Append(@, [item |-> cur[p], at |-> at,
                                               ent |-> EntAt(f, at)])]
    /\ pc' = [pc EXCEPT ![p] = "next"]
    /\ fs' = f

RealPath(f, p) == Walk(f, <<>>, p, TRUE, MaxHops).at
LinkPath(f, p) == Walk(f, <<>>, p, FALSE, MaxHops).at

\* get up to its first await: the checks, get_stream, entry of save_get_stream.
get_exclusive(p) ==
    /\ pc[p] = "idle"
    /\ \E ipfs_path \in IpfsPaths, output_path \in OutputPaths :
         LET g0 == get_check(ipfs_path, output_path, fs)
             busy == \E q \in Procs \ {p} :
                        /\ op[q] = "get" /\ pc[q] \notin {"idle", "done"}
                        /\ root[q] = g0.root
             g == IF g0.tag = "go" /\ busy THEN [g0 EXCEPT !.tag = "exists"] ELSE g0
         IN  /\ op' = [op EXCEPT ![p] = "get"]
             /\ call' = [call EXCEPT ![p] = [ipfs_path |-> ipfs_path,
                            output_path |-> output_path, path |-> <<>>, wrap |-> FALSE]]
             /\ root' = [root EXCEPT ![p] = g.root]
             /\ probes' = [probes EXCEPT ![p] = @ + g.probes]
             /\ IF g.tag = "go"
                THEN /\ streams' = [streams EXCEPT ![p] = @ + 1]
                     /\ pc' = [pc EXCEPT ![p] = "next"]
                     /\ UNCHANGED result
                ELSE /\ result' = [result EXCEPT ![p] = Err(g.tag)]
                     /\ pc' = [pc EXCEPT ![p] = "done"]
                     /\ UNCHANGED streams
    /\ UNCHANGED <<config, collected, fs, fs0, cur, fh, hist, pulled, ops, acc, events, ended, cap>>

get(p) ==
    /\ pc[p] = "idle"
    /\ \E ipfs_path \in IpfsPaths, output_path \in OutputPaths :
         LET g == get_check(ipfs_path, output_path, fs)
         IN  /\ op' = [op EXCEPT ![p] = "get"]
             /\ call' = [call EXCEPT ![p] = [ipfs_path |-> ipfs_path,
                            output_path |-> output_path, path |-> <<>>, wrap |-> FALSE]]
             /\ root' = [root EXCEPT ![p] = g.root]
             /\ probes' = [probes EXCEPT ![p] = @ + g.probes]
             /\ IF g.tag = "go"
                THEN /\ streams' = [streams EXCEPT ![p] = @ + 1]
                     /\ pc' = [pc EXCEPT ![p] = "next"]
                     /\ UNCHANGED result
                ELSE /\ result' = [result EXCEPT ![p] = Err(g.tag)]
                     /\ pc' = [pc EXCEPT ![p] = "done"]
                     /\ UNCHANGED streams
    /\ UNCHANGED <<config, collected, fs, fs0, cur, fh, hist, pulled, ops, acc, events, ended, cap>>

\* blocks.next().await yields Some(Ok((path, out))).
next_item(p) ==
    /\ op[p] = "get" /\ at_loop_head(p)
    /\ pulled[p] < MaxItems
    /\ \E item \in Items :
         /\ cur' = [cur EXCEPT ![p] = item]
         /\ pc' = [pc EXCEPT ![p] =
                IF item.kind = "Dir" THEN "mkdir"
                ELSE IF has_parent(item.path) THEN "parent"
                ELSE IF item.kind = "Reader" THEN "create" ELSE "symlink"]
    /\ pulled' = [pulled EXCEPT ![p] = @ + 1]
    /\ fh' = [fh EXCEPT ![p] = NoHandle]
    /\ UNCHANGED <<config, collected, fs, fs0, op, call, root, result, hist, ops, streams, probes,
                   acc, events, ended, cap>>

\* blocks.next().await yields Some(Err(e)): `block?` returns it.
next_err(p) ==
    /\ op[p] = "get" /\ at_loop_head(p)
    /\ pulled[p] < MaxItems
    /\ pulled' = [pulled EXCEPT ![p] = @ + 1]
    /\ cur' = [cur EXCEPT ![p] = NoItem]
    /\ fh' = [fh EXCEPT ![p] = NoHandle]
    /\ Fail(p, "stream", fs)
    /\ UNCHANGED <<config, collected, fs0, op, call, root, hist, ops, streams, probes,
                   acc, events, ended, cap>>

\* blocks.next().await yields None: save_get_stream and get return Ok.
next_end(p) ==
    /\ op[p] = "get" /\ at_loop_head(p)
    /\ ended' = [ended EXCEPT ![p] = TRUE]
    /\ result' = [result EXCEPT ![p] = Ok(root[p], None)]
    /\ pc' = [pc EXCEPT ![p] = "done"]
    /\ UNCHANGED <<config, collected, fs, fs0, op, call, root, cur, fh, hist, pulled, ops, streams,
                   probes, acc, events, cap>>

\* OutType::Dir: create_dir_all(full_path).
dir_create(p) ==
    /\ pc[p] = "mkdir"
    /\ LET full_path == to_path(cur[p].path, root[p])
           r == create_dir_all(fs, full_path)
       IN  IF r.err = "ok" THEN Complete(p, r.fs, RealPath(r.fs, full_path))
                            /\ UNCHANGED result
           ELSE Fail(p, "io", r.fs) /\ UNCHANGED hist
    /\ ops' = [ops EXCEPT ![p] = @ + 1]
    /\ UNCHANGED <<config, collected, fs0, op, call, root, cur, fh, pulled, streams, probes,
                   acc, events, ended, cap>>

\* Reader and Symlink: create_dir_all(parent.to_path(root_path)).
parent_skip(p) ==
    /\ pc[p] = "parent"
    /\ pc' = [pc EXCEPT ![p] = IF cur[p].kind = "Reader" THEN "create" ELSE "symlink"]
    /\ ops' = [ops EXCEPT ![p] = @ + 1]
    /\ UNCHANGED <<config, collected, fs, fs0, op, call, root, result, cur, fh, hist, pulled, streams,
                   probes, acc, events, ended, cap>>

parent_create(p) ==
    /\ pc[p] = "parent"
    /\ LET r == create_dir_all(fs, to_path(Parent(cur[p].path), root[p]))
       IN  IF r.err = "ok"
           THEN /\ pc' = [pc EXCEPT ![p] =
                       IF cur[p].kind = "Reader" THEN "create" ELSE "symlink"]
                /\ fs' = r.fs
                /\ UNCHANGED result
           ELSE Fail(p, "io", r.fs)
    /\ ops' = [ops EXCEPT ![p] = @ + 1]
    /\ UNCHANGED <<config, collected, fs0, op, call, root, cur, fh, hist, pulled, streams, probes,
                   acc, events, ended, cap>>

\* OutType::Reader: File::create(full_path).
create_file(p) ==
    /\ pc[p] = "create"
    /\ LET r == file_create(fs, to_path(cur[p].path, root[p]))
       IN  IF r.err = "ok"
           THEN /\ pc' = [pc EXCEPT ![p] = "copy"]
                /\ fh' = [fh EXCEPT ![p] = r.at]
                /\ fs' = r.fs
                /\ UNCHANGED result
           ELSE Fail(p, "io", r.fs) /\ UNCHANGED fh
    /\ ops' = [ops EXCEPT ![p] = @ + 1]
    /\ UNCHANGED <<config, collected, fs0, op, call, root, cur, hist, pulled, streams, probes,
                   acc, events, ended, cap>>

\* tokio::io::copy(&mut reader, &mut f) runs to the reader's end.
copy_all(p) ==
    /\ pc[p] = "copy"
    /\ Complete(p, file_write(fs, fh[p], cur[p].data), fh[p])
    /\ ops' = [ops EXCEPT ![p] = @ + 1]
    /\ UNCHANGED <<config, collected, fs0, op, call, root, result, cur, fh, pulled, streams, probes,
                   acc, events, ended, cap>>

\* tokio::io::copy fails after n bytes (a read or a write error).
copy_fail(p) ==
    /\ pc[p] = "copy"
    /\ \E n \in 0 .. Len(cur[p].data) :
         Fail(p, "io", file_write(fs, fh[p], SubSeq(cur[p].data, 1, n)))
    /\ ops' = [ops EXCEPT ![p] = @ + 1]
    /\ UNCHANGED <<config, collected, fs0, op, call, root, cur, fh, hist, pulled, streams, probes,
                   acc, events, ended, cap>>

\* A filesystem call fails for a reason outside the model (EACCES, ENOSPC,
\* EIO): create_dir_all, File::create or symlink returns Err, `?` returns it.
fs_error(p) ==
    /\ pc[p] \in {"mkdir", "parent", "create", "symlink"}
    /\ Fail(p, "io", fs)
    /\ ops' = [ops EXCEPT ![p] = @ + 1]
    /\ UNCHANGED <<config, collected, fs0, op, call, root, cur, fh, hist, pulled, streams, probes,
                   acc, events, ended, cap>>

\* OutType::Symlink: tokio::fs::symlink(target, full_path).
make_symlink(p) ==
    /\ pc[p] = "symlink"
    /\ LET full_path == to_path(cur[p].path, root[p])
           r == symlink(fs, cur[p].target, full_path)
       IN  IF r.err = "ok" THEN Complete(p, r.fs, LinkPath(r.fs, full_path))
                            /\ UNCHANGED result
           ELSE Fail(p, "io", r.fs) /\ UNCHANGED hist
    /\ ops' = [ops EXCEPT ![p] = @ + 1]
    /\ UNCHANGED <<config, collected, fs0, op, call, root, cur, fh, pulled, streams, probes,
                   acc, events, ended, cap>>


\* ------------------------------------------------------------------- add
AddPaths == {<<"out">>}

\* add_stream: the capability chosen for the local entry, or "bail".
add_stream_file_first(path, f) ==
    IF is_dir(f, path) THEN "add_dir"
    ELSE IF is_file(f, path) THEN "add_file"
    ELSE IF is_symlink(f, path) THEN "add_symlink"
    ELSE "bail"

add_stream_symlink_first(path, f) ==
    IF is_symlink(f, path) THEN "add_symlink"
    ELSE IF is_dir(f, path) THEN "add_dir"
    ELSE IF is_file(f, path) THEN "add_file"
    ELSE "bail"

add_stream(path, f) ==
    IF is_dir(f, path) THEN "add_dir"
    ELSE IF is_symlink(f, path) THEN "add_symlink"
    ELSE IF is_file(f, path) THEN "add_file"
    ELSE "bail"

\* The closure of try_fold: the accumulator after an event carrying cid.
fold_keep_first(a, cid) == IF a = None THEN cid ELSE a
fold_step(a, cid) == cid

\* Option::context("No cid found") on the folded accumulator.
context_default(a) == Ok(<<>>, a)
context(a) == IF a = None THEN Err("No cid found") ELSE Ok(<<>>, a)

\* add up to the stream: add_stream(path, wrap).await?
add(p) ==
    /\ pc[p] = "idle"
    /\ \E path \in AddPaths, wrap \in BOOLEAN, up \in BOOLEAN :
         LET c == add_stream(path, fs)
         IN  /\ call' = [call EXCEPT ![p] = [NoCall EXCEPT !.path = path, !.wrap = wrap]]
             /\ cap' = [cap EXCEPT ![p] = IF c = "bail" THEN NoCap
                            ELSE [name |-> c, path |-> path, wrap |-> wrap]]
             /\ IF c = "bail"
                THEN /\ result' = [result EXCEPT ![p] = Err("can only add files or directories")]
                     /\ pc' = [pc EXCEPT ![p] = "done"]
                ELSE IF up
                THEN /\ pc' = [pc EXCEPT ![p] = "fold"]
                     /\ UNCHANGED result
                ELSE /\ result' = [result EXCEPT ![p] = Err("capability")]
                     /\ pc' = [pc EXCEPT ![p] = AbortPc]
    /\ op' = [op EXCEPT ![p] = "add"]
    /\ UNCHANGED <<config, collected, fs, fs0, root, cur, fh, hist, pulled, ops, streams, probes,
                   acc, events, ended>>

\* The event stream yields Ok(AddEvent::ProgressDelta { cid, .. }).
add_event(p) ==
    /\ pc[p] = "fold"
    /\ Len(events[p]) < MaxEvents
    /\ \E cid \in Cids :
         /\ events' = [events EXCEPT ![p] = Append(@, cid)]
         /\ acc' = [acc EXCEPT ![p] = fold_step(@, cid)]
    /\ UNCHANGED <<config, collected, fs, fs0, pc, op, call, root, result, cur, fh, hist, pulled, ops,
                   streams, probes, ended, cap>>

\* What add returns when the event stream yields Err(e) with a folded so far:
\* the ? after try_fold(...).await returns the error, the accumulator is lost.
try_fold_err_partial(a) == IF a = None THEN Err("event") ELSE Ok(<<>>, a)
try_fold_err(a) == Err("event")

\* The event stream yields Err(e): try_fold stops and add returns it.
add_event_err(p) ==
    /\ pc[p] = "fold"
    /\ Len(events[p]) < MaxEvents
    /\ result' = [result EXCEPT ![p] = try_fold_err(acc[p])]
    /\ pc' = [pc EXCEPT ![p] = AbortPc]
    /\ UNCHANGED <<config, collected, fs, fs0, op, call, root, cur, fh, hist, pulled, ops,
                   streams, probes, acc, events, ended, cap>>

\* The event stream ends: the folded Option through context.
add_end(p) ==
    /\ pc[p] = "fold"
    /\ ended' = [ended EXCEPT ![p] = TRUE]
    /\ result' = [result EXCEPT ![p] = context(acc[p])]
    /\ pc' = [pc EXCEPT ![p] = "done"]
    /\ UNCHANGED <<config, collected, fs, fs0, op, call, root, cur, fh, hist, pulled, ops,
                   streams, probes, acc, events, cap>>

\* --------------------------------------------------------- specification
\* One caller runs one call of get or add.
Next ==
    \/ \E p \in Solo : get(p)
    \/ \E p \in Solo : next_item(p)
    \/ \E p \in Solo : next_err(p)
    \/ \E p \in Solo : next_end(p)
    \/ \E p \in Solo : dir_create(p)
    \/ \E p \in Solo : parent_create(p)
    \/ \E p \in Solo : create_file(p)
    \/ \E p \in Solo : copy_all(p)
    \/ \E p \in Solo : copy_fail(p)
    \/ \E p \in Solo : make_symlink(p)
    \/ \E p \in Solo : fs_error(p)
    \/ \E p \in Solo : add(p)
    \/ \E p \in Solo : add_event(p)
    \/ \E p \in Solo : add_event_err(p)
    \/ \E p \in Solo : add_end(p)

Spec == Init /\ [][Next]_vars

\* The rpc client's Config on its own.
InitConfig == Init /\ fs = EmptyFs
NextConfig ==
    \/ config_default
    \/ config_default_grpc
    \/ set_addr
    \/ set_channels
    \/ do_collect
SpecConfig == InitConfig /\ [][NextConfig]_vars

\* Two get calls of one client run interleaved at their await points.  The
\* items the callers pull are bounded together.
SharedBudget == pulled[1] + pulled[2] < MaxShared
NextConc ==
    \/ \E p \in Procs : get(p)
    \/ \E p \in Procs : next_item(p) /\ SharedBudget
    \/ \E p \in Procs : next_err(p) /\ SharedBudget
    \/ \E p \in Procs : next_end(p)
    \/ \E p \in Procs : dir_create(p)
    \/ \E p \in Procs : parent_create(p)
    \/ \E p \in Procs : create_file(p)
    \/ \E p \in Procs : copy_all(p)
    \/ \E p \in Procs : copy_fail(p)
    \/ \E p \in Procs : fs_error(p)
    \/ \E p \in Procs : make_symlink(p)
InitConc == Init /\ fs \in {EmptyFs, Put(EmptyFs, <<"out">>, DirEnt)}
SpecConc == InitConc /\ [][NextConc]_vars

\* Every awaited future completes: the stream's next item, each filesystem
\* call and each copy return, so a step that can be taken is taken.
InitLive == Init /\ fs = EmptyFs
\* blocks.next().await returns: an item, an error or the end of the stream.
StreamStep(p) == next_end(p) \/ next_item(p) \/ next_err(p)
\* The awaited filesystem call or copy returns, with Ok or with Err.
CallReturns(p) ==
    \/ fs_error(p) \/ copy_all(p) \/ copy_fail(p)
    \/ dir_create(p) \/ parent_create(p) \/ create_file(p) \/ make_symlink(p)
\* One caller's get, through save_get_stream, to its return.
NextGet ==
    \/ \E p \in Solo : get(p)
    \/ \E p \in Solo : StreamStep(p)
    \/ \E p \in Solo : CallReturns(p)
SpecLive ==
    /\ InitLive /\ [][NextGet]_vars
    /\ \A p \in Solo : WF_vars(StreamStep(p)) /\ WF_vars(CallReturns(p))


\* ---------------------------------------------------------------- claims
IsGet(p) == op[p] = "get"
IsAdd(p) == op[p] = "add"
GetFailed(p) == IsGet(p) /\ result[p].tag = "Err"
Last(s) == s[Len(s)]
\* The destination get resolves for the call's arguments.
Destination(p) == get_root_path(call[p].ipfs_path, call[p].output_path)
\* The destination was not on disk, in any form, before the call.
FreshRoot(p) == LStat(fs0, root[p]).kind = "none"

\* C1: a get whose resolved destination is already on disk, as a file, a
\* directory or a symbolic link, fails with the already-exists error, never
\* invokes get_stream and leaves the filesystem as it was.
C1_ExistingDestinationRejected ==
    \A p \in Procs :
        (IsGet(p) /\ call[p].ipfs_path.cid # None
                  /\ LStat(fs0, Destination(p)).kind # "none")
        => /\ result[p] = Err("exists")
           /\ streams[p] = 0
           /\ fs = fs0

\* C2: a get on a reference without a root identifier fails with the
\* addressing error before any I/O: the destination is neither resolved nor
\* probed, get_stream is not invoked, nothing is requested or written,
\* whatever the output path and whether or not it exists.
C2_AddressingErrorFirst ==
    \A p \in Procs :
        (IsGet(p) /\ call[p].ipfs_path.cid = None)
        => /\ result[p] = Err("addressing")
           /\ probes[p] = 0 /\ root[p] = <<>>
           /\ streams[p] = 0 /\ pulled[p] = 0 /\ ops[p] = 0
           /\ fs = fs0

C2_Witness ==
    \E p \in Procs :
        /\ IsGet(p) /\ call[p].ipfs_path.cid = None
        /\ call[p].output_path.some
        /\ exists(fs0, call[p].output_path.path)
        /\ result[p] = Err("addressing")

\* C3: once save_get_stream has failed at an item, with the error of that
\* failure as the result, no further item is requested from the stream and
\* no further filesystem operation is performed; the result stays that error.
C3_AbortAtFirstFailure ==
    [][\A p \in Procs :
          GetFailed(p) => /\ pulled'[p] = pulled[p]
                          /\ ops'[p] = ops[p]
                          /\ hist'[p] = hist[p]
                          /\ result'[p] = result[p]]_vars

C3_Witness ==
    \E p \in Procs :
        /\ GetFailed(p) /\ result[p].err \in {"io", "stream"}
        /\ Len(hist[p]) = 1 /\ pulled[p] = 2 /\ pulled[p] < MaxItems


\* C4 (as stated): when save_get_stream fails at item k, the entry written
\* for each of the items 1..k-1 is on disk exactly as it was written.
C4_EarlierEntriesAsWritten ==
    \A p \in Procs :
        GetFailed(p) =>
            \A j \in 1 .. Len(hist[p]) : EntAt(fs, hist[p][j].at) = hist[p][j].ent

\* Item j's entry was written again by a later item of the stream, the
\* failing item's own File::create and partial copy included.
WrittenAgain(p, j) ==
    \/ \E i \in (j + 1) .. Len(hist[p]) : hist[p][i].at = hist[p][j].at
    \/ fh[p] = hist[p][j].at

\* C4 (amended): when save_get_stream fails at item k, the entry written for
\* each of the items 1..k-1 that no later item of the stream wrote again is
\* on disk exactly as it was written: failing deletes, truncates and cleans
\* up nothing.
C4_NoRollback ==
    \A p \in Procs :
        GetFailed(p) =>
            \A j \in 1 .. Len(hist[p]) :
                ~WrittenAgain(p, j) => EntAt(fs, hist[p][j].at) = hist[p][j].ent

C4_Witness ==
    \E p \in Procs :
        /\ GetFailed(p) /\ result[p].err = "io" /\ pc[p] = "done"
        /\ Len(hist[p]) = 2
        /\ \A j \in 1 .. 2 : /\ ~WrittenAgain(p, j)
                             /\ hist[p][j].ent.kind # "none"
                             /\ EntAt(fs, hist[p][j].at) = hist[p][j].ent
        /\ cur[p].kind = "Reader" /\ fh[p] # NoHandle
        /\ EntAt(fs, fh[p]).data # cur[p].data

\* C5: when the event stream of add ends after one or more events, all of
\* them successful, add returns the identifier of the last event.
C5_LastEventWins ==
    \A p \in Procs :
        (IsAdd(p) /\ ended[p] /\ events[p] # <<>>)
        => result[p] = Ok(<<>>, Last(events[p]))

C5_Witness ==
    \E p \in Procs :
        /\ IsAdd(p) /\ ended[p]
        /\ events[p] = <<1, 2, 3>>
        /\ result[p] = Ok(<<>>, 3)

\* C6: when add_stream succeeds and the event stream ends without an event,
\* add fails with "No cid found".
C6_EmptyStreamFails ==
    \A p \in Procs :
        (IsAdd(p) /\ cap[p].name # "none" /\ ended[p] /\ events[p] = <<>>)
        => result[p] = Err("No cid found")

C6_Witness ==
    \E p \in Procs :
        /\ IsAdd(p) /\ cap[p].name = "add_file" /\ ended[p] /\ events[p] = <<>>
        /\ result[p].tag = "Err" /\ result[p].cid = None

\* C7: the destination get resolves is the explicit output path whenever
\* one is given; otherwise the string form of the root identifier for an
\* empty tail, and the last tail segment for a tail of any length.
C7_RootPath ==
    \A p \in Procs :
        (IsGet(p) /\ probes[p] > 0) =>
            LET out == call[p].output_path
                tail == call[p].ipfs_path.tail
            IN  /\ out.some => root[p] = out.path
                /\ (~out.some /\ tail = <<>>)
                       => root[p] = <<CidToString(call[p].ipfs_path.cid)>>
                /\ (~out.some /\ tail # <<>>) => root[p] = <<tail[Len(tail)]>>

C7_Witness ==
    \E p \in Procs :
        /\ IsGet(p) /\ probes[p] > 0
        /\ ~call[p].output_path.some
        /\ Len(call[p].ipfs_path.tail) = 2
        /\ root[p] = <<"t">>

\* What the stream's item reads back as under the destination root.
Materialized(p, item) ==
    LET full_path == to_path(item.path, root[p])
    IN  CASE item.kind = "Dir" -> is_dir(fs, full_path)
          [] item.kind = "Symlink" -> LStat(fs, full_path) = LinkEnt(item.target)
          [] item.kind = "Reader" -> Stat(fs, full_path) = FileEnt(item.data)
          [] OTHER -> FALSE

DistinctPaths(h) ==
    \A i, j \in 1 .. Len(h) : i # j => h[i].item.path # h[j].item.path

\* C8: after a successful save_get_stream of items with pairwise distinct
\* paths into a root that did not exist, every Directory item's path is a
\* directory, every SymlinkTarget item's path is a symlink with the given
\* target and every ReadableContent item's path is a regular file holding
\* exactly the item's bytes.
C8_RoundTrip ==
    \A p \in Procs :
        (IsGet(p) /\ result[p].tag = "Ok" /\ FreshRoot(p) /\ DistinctPaths(hist[p]))
        => \A j \in 1 .. Len(hist[p]) : Materialized(p, hist[p][j].item)

\* C9: save_get_stream has at most one item in hand: the items requested
\* are the items completed plus at most the one being handled, and at the
\* loop head, where the next item is requested, none is being handled.
C9_OneItemInFlight ==
    \A p \in Procs :
        IsGet(p) => /\ pulled[p] - Len(hist[p]) \in {0, 1}
                    /\ pc[p] = "next" => pulled[p] = Len(hist[p])
                    /\ pc[p] \in {"mkdir", "parent", "create", "copy", "symlink"}
                          => pulled[p] = Len(hist[p]) + 1

C9_Witness ==
    \E p \in Procs :
        /\ IsGet(p) /\ pc[p] = "copy"
        /\ pulled[p] = 2 /\ Len(hist[p]) = 1

\* Some get in progress has its destination root at or above q.
UnderARoot(q) ==
    \E p \in Procs : IsGet(p) /\ streams[p] > 0 /\ IsPrefix(root[p], q)

\* C10: whatever the items of the stream, no entry outside the destination
\* root's subtree is created or modified (the root being new).
C10_WritesStayUnderRoot ==
    (\A p \in Procs : IsGet(p) => FreshRoot(p))
    => \A q \in DOMAIN fs \cup DOMAIN fs0 :
           ~UnderARoot(q) => EntAt(fs, q) = EntAt(fs0, q)


\* The kind of the local entry add was called on, and of what it resolves to.
EntryKind(p) == LStat(fs0, call[p].path).kind
TargetKind(p) == Stat(fs0, call[p].path).kind
Invoked(p, name) ==
    cap[p] = [name |-> name, path |-> call[p].path, wrap |-> call[p].wrap]

\* C11: add_stream invokes one capability, chosen by testing directory, then
\* symbolic link, then regular file: add_dir for a directory, add_symlink for
\* a symbolic link, add_file for a regular file, each with the call's path
\* and wrap flag; for a missing path or a special file it invokes none and
\* fails with "can only add files or directories".
C11_DispatchByKind ==
    \A p \in Procs :
        IsAdd(p) =>
            /\ (EntryKind(p) = "dir" \/ TargetKind(p) = "dir") => Invoked(p, "add_dir")
            /\ (EntryKind(p) = "symlink" /\ TargetKind(p) # "dir")
                  => Invoked(p, "add_symlink")
            /\ EntryKind(p) = "file" => Invoked(p, "add_file")
            /\ EntryKind(p) \in {"none", "special"}
                  => /\ cap[p] = NoCap
                     /\ result[p] = Err("can only add files or directories")
            /\ cap[p].name \in {"none", "add_dir", "add_symlink", "add_file"}

C11_Witness ==
    \E p \in Procs :
        /\ IsAdd(p) /\ call[p].wrap
        /\ EntryKind(p) = "symlink" /\ TargetKind(p) = "file"
        /\ Invoked(p, "add_symlink") /\ pc[p] = "fold"

\* C18: a symbolic link that resolves to a directory is handed to add_dir,
\* because the directory test follows links and runs first; a symbolic link
\* to a regular file, a dangling link and a link to a special file are
\* handed to add_symlink.
C18_LinkDispatch ==
    \A p \in Procs :
        (IsAdd(p) /\ EntryKind(p) = "symlink") =>
            /\ TargetKind(p) = "dir" => cap[p].name = "add_dir"
            /\ TargetKind(p) \in {"file", "none", "special"}
                  => cap[p].name = "add_symlink"
            /\ result[p] # Err("can only add files or directories")

C18_Witness ==
    \E p \in Procs :
        /\ IsAdd(p)
        /\ EntryKind(p) = "symlink" /\ TargetKind(p) = "dir"
        /\ cap[p].name = "add_dir"

C18_WitnessSpecial ==
    \E p \in Procs :
        /\ IsAdd(p)
        /\ EntryKind(p) = "symlink" /\ TargetKind(p) = "special"
        /\ cap[p].name = "add_symlink"

\* C13: add returns no partial success. When the event stream yields an error,
\* add fails with that error even if earlier events carried identifiers, and
\* pulls no further event; add returns an identifier only after the stream
\* was consumed to its end with no error item.
C13_NoPartialSuccess ==
    [][\A p \in Procs :
          IsAdd(p)' =>
              /\ result'[p].tag = "Ok" => /\ ended'[p]
                                          /\ events'[p] # <<>>
                                          /\ result'[p].cid # None
              /\ (pc[p] = "fold" /\ ~ended'[p] /\ events'[p] = events[p])
                    => result'[p] = Err("event")
              /\ (IsAdd(p) /\ result[p].tag = "Err")
                    => /\ events'[p] = events[p]
                       /\ acc'[p] = acc[p]
                       /\ result'[p] = result[p]]_vars

C13_Witness ==
    \E p \in Procs :
        /\ IsAdd(p) /\ pc[p] = "done"
        /\ result[p] = Err("event")
        /\ Len(events[p]) = 2 /\ acc[p] # None /\ ~ended[p]

\* C12: whenever get returns successfully, the returned path is the resolved
\* destination, the destination was not on disk before the call, it is on
\* disk after it, and it holds the entries of the stream that was returned,
\* for every stream, the one without items included.
C12_SuccessMeansMaterialized ==
    \A p \in Procs :
        (IsGet(p) /\ result[p].tag = "Ok") =>
            /\ result[p].path = Destination(p)
            /\ FreshRoot(p)
            /\ LStat(fs, root[p]).kind # "none"
            /\ DistinctPaths(hist[p])
                  => \A j \in 1 .. Len(hist[p]) : Materialized(p, hist[p][j].item)

\* The parent directory of the item in hand, under the destination root.
ParentPath(p) == to_path(Parent(cur[p].path), root[p])
\* The parent chain is missing: the parent has no entry, and whatever part of
\* the chain is on disk is a directory.
ChainMissing(p) ==
    /\ LStat(fs, ParentPath(p)).kind = "none"
    /\ \A n \in 1 .. Len(ParentPath(p)) :
          LET q == SubSeq(ParentPath(p), 1, n)
          IN  LStat(fs, q).kind # "none" => is_dir(fs, q)
\* Every proper ancestor of the item's path, from the root down, is a directory.
AncestorsAreDirs(f, r, path) ==
    \A n \in 0 .. Len(path) - 1 : is_dir(f, to_path(SubSeq(path, 1, n), r))

\* C17: a ReadableContent or SymlinkTarget item whose parent chain is missing
\* gets the whole chain created before the file or symlink, so creating the
\* file or symlink then succeeds, and every proper ancestor of a handled
\* item's path under the root is a directory; a Directory item on an existing
\* directory succeeds and changes nothing.
C17_ParentChainCreated ==
    [][\A p \in Procs :
          /\ (pc[p] = "parent" /\ ChainMissing(p)) =>
                /\ create_dir_all(fs, ParentPath(p)).err = "ok"
                /\ \/ result'[p].tag = "Err" /\ fs' = fs
                   \/ /\ pc'[p] = (IF cur[p].kind = "Reader" THEN "create" ELSE "symlink")
                      /\ is_dir(fs', ParentPath(p))
                      /\ cur[p].kind = "Reader" =>
                            file_create(fs', to_path(cur[p].path, root[p])).err = "ok"
                      /\ cur[p].kind = "Symlink" =>
                            symlink(fs', cur[p].target, to_path(cur[p].path, root[p])).err = "ok"
          /\ \A j \in 1 .. Len(hist'[p]) :
                hist'[p][j].item.kind \in {"Reader", "Symlink"} =>
                    AncestorsAreDirs(fs', root[p], hist'[p][j].item.path)
          /\ (pc[p] = "mkdir" /\ is_dir(fs, to_path(cur[p].path, root[p]))) =>
                /\ create_dir_all(fs, to_path(cur[p].path, root[p])) = Done(fs)
                /\ fs' = fs
                /\ pc'[p] = "next" \/ result'[p].tag = "Err"]_vars

C17_Witness ==
    \E p \in Procs :
        /\ IsGet(p) /\ FreshRoot(p) /\ pc[p] = "next"
        /\ Len(hist[p]) = 1 /\ pulled[p] = 1
        /\ hist[p][1].item.kind = "Reader" /\ hist[p][1].item.path = <<"a", "b">>
        /\ is_dir(fs, root[p]) /\ is_dir(fs, to_path(<<"a">>, root[p]))

\* The last ReadableContent occurrence of a relative path in a history.
LastReader(h, path) ==
    LET occ == {j \in 1 .. Len(h) : h[j].item.kind = "Reader" /\ h[j].item.path = path}
    IN  h[CHOOSE j \in occ : \A i \in occ : i <= j].item
Repeated(h, path) ==
    \E i, j \in 1 .. Len(h) :
        /\ i < j
        /\ h[i].item.kind = "Reader" /\ h[i].item.path = path
        /\ h[j].item.kind = "Reader" /\ h[j].item.path = path

\* C19: when a relative path occurs more than once as ReadableContent, after
\* a successful save_get_stream the file at that path holds exactly the bytes
\* of the last occurrence.
C19_LastOccurrenceWins ==
    \A p \in Procs :
        (IsGet(p) /\ result[p].tag = "Ok" /\ FreshRoot(p)) =>
            \A path \in ItemPaths \cup {<<>>} :
                Repeated(hist[p], path) =>
                    Stat(fs, to_path(path, root[p])) =
                        FileEnt(LastReader(hist[p], path).data)

\* The same, for streams without SymlinkTarget items.
C19_LastOccurrenceWinsNoLinks ==
    \A p \in Procs :
        (/\ IsGet(p) /\ result[p].tag = "Ok" /\ FreshRoot(p)
         /\ \A j \in 1 .. Len(hist[p]) : hist[p][j].item.kind # "Symlink") =>
            \A path \in ItemPaths \cup {<<>>} :
                Repeated(hist[p], path) =>
                    Stat(fs, to_path(path, root[p])) =
                        FileEnt(LastReader(hist[p], path).data)

\* The filesystem calls one item takes when it is handled once.
OpsOf(item) ==
    IF item.kind = "Dir" THEN 1
    ELSE (IF has_parent(item.path) THEN 1 ELSE 0)
         + (IF item.kind = "Reader" THEN 2 ELSE 1)
RECURSIVE OpsOfAll(_)
OpsOfAll(h) == IF h = <<>> THEN 0 ELSE OpsOf(h[1].item) + OpsOfAll(Tail(h))
Returned(p) == IsGet(p) /\ streams[p] > 0 /\ pc[p] = "done"

\* C20: for a finite stream whose items and filesystem operations complete,
\* save_get_stream eventually returns; it returns success exactly when the
\* stream ended with no error item and no failed operation, and then every
\* item was requested once and handled once.
C20_Terminates ==
    /\ \A p \in Procs : (IsGet(p) /\ streams[p] > 0) ~> Returned(p)
    /\ [](\A p \in Procs :
            Returned(p) =>
                /\ result[p].tag \in {"Ok", "Err"}
                /\ result[p].tag = "Ok" <=> (ended[p] /\ pulled[p] = Len(hist[p]))
                /\ result[p].tag = "Err" <=> (~ended[p] /\ pulled[p] = Len(hist[p]) + 1)
                /\ result[p].tag = "Ok" => ops[p] = OpsOfAll(hist[p]))

C20_Witness ==
    \E p \in Procs :
        /\ Returned(p) /\ result[p].tag = "Ok"
        /\ pulled[p] = 3 /\ Len(hist[p]) = 3 /\ ops[p] = 6

\* C14: the existence check of get rejects a root exactly when an entry is
\* found at it at the moment of the probe; it does not exclude concurrent
\* writers, so a get proceeds into a root that another get, which found it
\* missing too, is materializing into.
C14_CheckIsOnlyAProbe ==
    [][\A p \in Procs :
          (pc[p] = "idle" /\ IsGet(p)') =>
              /\ result'[p] = Err("exists")
                    <=> /\ call'[p].ipfs_path.cid # None
                        /\ exists(fs, get_root_path(call'[p].ipfs_path, call'[p].output_path))
              /\ (call'[p].ipfs_path.cid # None /\ result'[p] # Err("exists"))
                    => pc'[p] = "next" /\ streams'[p] = 1]_vars

\* Both callers passed the check for the same new root and both wrote into it.
C14_Witness ==
    /\ \A p \in Procs :
          /\ IsGet(p) /\ streams[p] = 1 /\ result[p].tag # "Err"
          /\ Len(hist[p]) >= 1 /\ IsPrefix(root[p], hist[p][1].at)
    /\ root[1] = root[2]
    /\ LStat(fs0, root[1]).kind = "none"

ConfigKeys == {"gateway_addr", "p2p_addr", "store_addr", "channels"}

\* C15: collect returns Ok with a map whose keys are exactly the fields of
\* the Config that are present, each mapped to the string form of its value
\* (scheme://host:port for an address, decimal digits for channels); absent
\* fields produce no key and collect never fails.
C15_CollectPresentFields ==
    /\ collected.tag \in {"none", "Ok"}
    /\ collected.tag = "Ok" =>
          LET c == collected.of
              m == collected.map
          IN  /\ DOMAIN m = {k \in ConfigKeys : c[k].some}
              /\ \A k \in DOMAIN m \cap AddrFields :
                    /\ Len(m[k]) >= 5
                    /\ SubSeq(m[k], 1, 4) = <<c[k].val.scheme, "://", c[k].val.host, ":">>
                    /\ str_to_usize(SubSeq(m[k], 5, Len(m[k]))) = c[k].val.port
              /\ "channels" \in DOMAIN m => str_to_usize(m["channels"]) = c.channels.val
              /\ c.channels = Some(205) => m["channels"] = <<"2", "0", "5">>
              /\ c = default_grpc =>
                    /\ m["gateway_addr"] = <<"grpc", "://", "0.0.0.0", ":", "4", "4", "0", "0">>
                    /\ m["channels"] = <<"1", "6">>

C15_Witness ==
    /\ collected.tag = "Ok"
    /\ collected.of.gateway_addr.some /\ ~collected.of.p2p_addr.some
    /\ ~collected.of.store_addr.some /\ collected.of.channels = Some(205)
    /\ DOMAIN collected.map = {"gateway_addr", "channels"}

\* C16: the default configuration carries the documented defaults: the value
\* Config::default() equals Config::default_grpc(), and collect on it emits
\* all four keys, with 0.0.0.0:4400, 0.0.0.0:4401, 0.0.0.0:4402 and 16.
C16_DefaultIsDocumented ==
    (collected.tag = "Ok" /\ collected.of = ConfigDefault) =>
        /\ ConfigDefault = default_grpc
        /\ DOMAIN collected.map = ConfigKeys
        /\ collected.map["gateway_addr"] = <<"grpc", "://", "0.0.0.0", ":", "4", "4", "0", "0">>
        /\ collected.map["p2p_addr"] = <<"grpc", "://", "0.0.0.0", ":", "4", "4", "0", "1">>
        /\ collected.map["store_addr"] = <<"grpc", "://", "0.0.0.0", ":", "4", "4", "0", "2">>
        /\ collected.map["channels"] = <<"1", "6">>

\* What default_grpc holds and collects to.
C16_DefaultGrpcIsDocumented ==
    (collected.tag = "Ok" /\ collected.of = default_grpc) =>
        /\ DOMAIN collected.map = ConfigKeys
        /\ collected.map["gateway_addr"] = <<"grpc", "://", "0.0.0.0", ":", "4", "4", "0", "0">>
        /\ collected.map["p2p_addr"] = <<"grpc", "://", "0.0.0.0", ":", "4", "4", "0", "1">>
        /\ collected.map["store_addr"] = <<"grpc", "://", "0.0.0.0", ":", "4", "4", "0", "2">>
        /\ collected.map["channels"] = <<"1", "6">>

====
